---- MODULE Spec2Model ----
(***************************************************************************)
(* A model of the slate core (crates/slate/src/types): the Path algebra,   *)
(* the Operation inverse, the Point and Range transforms, the decoration   *)
(* splitting of Text leaves and the depth-first NodeIterator.              *)
(*                                                                         *)
(* Conventions.                                                            *)
(*  - A Path is a sequence of indices; the code's 0-based position i is    *)
(*    the TLA+ position i+1.                                               *)
(*  - usize values are written as integers; a value v >= 2^63 is written   *)
(*    v - 2^64 (its two's-complement reading), so the result of a wrapping *)
(*    0 - 1 is -1.  ULess is the unsigned order on that reading.           *)
(*  - Arithmetic overflow panics in a build with overflow checks ("debug") *)
(*    and wraps without them ("release"); the variable build holds which   *)
(*    of the two the program was compiled as.                              *)
(*  - Option<T> results are records [st, v]: st = "some" carries v,        *)
(*    st = "none" is None and st = "panic" is an abort of the process.     *)
(*  - A String is the sequence of its UTF-8 bytes.                         *)
(***************************************************************************)
EXTENDS Integers, Sequences, FiniteSets, TLC

(* Bounds of the model. *)
MaxIndex == 1
MaxPathLen == 2
MaxOffset == 2
MaxNodes == 4
MaxLen == 3
MaxDecorations == 2

VARIABLES
  build,      \* "debug" (overflow checks) or "release" (wrapping arithmetic)
  pc,         \* position of the driver that applies the functions
  op,         \* the Operation under study
  inv,        \* Operation::inverse(op)
  inv2,       \* Operation::inverse(inverse(op))
  arg_affinity, \* the path::Affinity handed to the transforms
  arg_path,   \* the Path handed to Path::transform
  tpath,      \* Path::transform(arg_path, op, arg_affinity)
  tback,      \* Path::transform(tpath, inverse(op), arg_affinity)
  arg_point,  \* the Point handed to Point::transform
  tpoint,     \* Point::transform(arg_point, op, arg_affinity)
  tpointback, \* Point::transform(tpoint, inverse(op), arg_affinity)
  doc,        \* the document (root Node) an operation is applied to
  doc2,       \* the document after the operation, its nodes tagged
  self_root,  \* NodeIterator.root
  self_n,     \* NodeIterator.n
  self_p,     \* NodeIterator.p
  self_reverse, \* NodeIterator.reverse
  self_visited, \* NodeIterator.visited
  out,        \* what the last call of next() returned
  yielded,    \* the entries returned before the first None
  emitted,    \* every entry returned so far, the calls that gave None skipped
  ended,      \* a call of next() has returned None
  calls,      \* the number of calls of next() so far
  arg_range,  \* the range handed to Range::transform / Range::intersection
  arg_another, \* Range::intersection's second range
  range_affinity, \* Range::transform's affinity (range::Affinity)
  trange,     \* Range::transform(arg_range, op, range_affinity)
  isect,      \* arg_range.intersection(arg_another)
  arg_text,   \* the leaf Text::decorations is called on
  arg_decorations, \* the decorations handed to it
  leaves,     \* Text::decorations: `leaves`
  decorated,  \* the number of decorations the outer loop has gone through
  path_a,     \* the first Path handed to the comparisons
  path_b,     \* the second Path
  path_c,     \* the third Path (transitivity)
  cmp_out,    \* the Orderings cmp returned for the pairs of the three paths
  common_out, \* what Path::common returned for (a, b), (b, a) and (a, a)
  ends_out,   \* what ends_before(a, b) and ends_after(a, b) returned
  next_a,     \* Path::next(path_a)
  includes_out \* arg_range.includes_range(arg_another)

inverseVars == <<inv, inv2>>

pathVars == <<arg_path, tpath, tback>>

pointVars == <<arg_point, tpoint, tpointback>>

treeVars == <<doc, doc2>>

iterVars ==
  <<self_root, self_n, self_p, self_reverse, self_visited, out, yielded,
    emitted, ended, calls>>

rangeVars ==
  <<arg_range, arg_another, range_affinity, trange, isect, includes_out>>

textVars == <<arg_text, arg_decorations, leaves, decorated>>

orderVars ==
  <<path_a, path_b, path_c, cmp_out, common_out, ends_out, next_a>>

vars ==
  <<build, pc, op, arg_affinity, inverseVars, pathVars, pointVars, treeVars,
    iterVars, rangeVars, textVars, orderVars>>

Builds == {"debug", "release"}

(***************************************************************************)
(* usize arithmetic                                                        *)
(***************************************************************************)
ULess(a, b) == IF (a < 0) = (b < 0) THEN a < b ELSE b < 0

ULeq(a, b) == a = b \/ ULess(a, b)

\* a + b overflows usize
AddOverflows(a, b) ==
  \/ a < 0 /\ b < 0
  \/ a < 0 /\ b >= 0 /\ a + b >= 0
  \/ b < 0 /\ a >= 0 /\ a + b >= 0

\* a - b underflows usize
SubOverflows(a, b) == ULess(a, b)

(***************************************************************************)
(* Option / abort results                                                  *)
(***************************************************************************)
Some(x) == [st |-> "some", v |-> x]

NonePath == [st |-> "none", v |-> <<>>]

PanicPath == [st |-> "panic", v |-> <<>>]

\* a bool-returning call: not made yet, or ended by a panic
NoBool == [st |-> "none", v |-> FALSE]

PanicBool == [st |-> "panic", v |-> FALSE]

\* Continue with F on a value, pass None and panics through (the ? operator,
\* and a panic ending the call).
AndThen(r, F(_)) == IF r.st = "some" THEN F(r.v) ELSE r

(***************************************************************************)
(* Path  (types/path.rs)                                                   *)
(***************************************************************************)
RECURSIVE PathsOfLen(_)
PathsOfLen(k) ==
  IF k = 0 THEN {<<>>}
  ELSE {Append(q, i) : q \in PathsOfLen(k - 1), i \in 0..MaxIndex}

Paths == UNION {PathsOfLen(k) : k \in 0..MaxPathLen}

NonRootPaths == Paths \ {<<>>}

Affinities == {"Forward", "Backward", "None"}

DefaultAffinity == "Forward"

concat(p, i) == Append(p, i)

\* self.0[..k]
Take(p, k) == SubSeq(p, 1, k)

\* self.0[k..]
Drop(p, k) == SubSeq(p, k + 1, Len(p))

\* Only self running out of indices counts as Equal.
RECURSIVE cmp_from_left(_, _, _)
cmp_from_left(a, b, i) ==
  IF i > Len(a) THEN "Equal"
  ELSE IF i > Len(b) THEN "Greater"
  ELSE IF a[i] = b[i] THEN cmp_from_left(a, b, i + 1)
  ELSE IF ULess(a[i], b[i]) THEN "Less" ELSE "Greater"

\* impl Ord for Path
RECURSIVE cmp_from(_, _, _)
cmp_from(a, b, i) ==
  IF i > Len(a) \/ i > Len(b) THEN "Equal"
  ELSE IF a[i] = b[i] THEN cmp_from(a, b, i + 1)
  ELSE IF ULess(a[i], b[i]) THEN "Less" ELSE "Greater"

\* The lexicographic order of the index lists: a proper prefix is Less.
cmp_by_length(a, b) ==
  LET c == cmp_from(a, b, 1) IN
    IF c = "Equal" /\ Len(a) < Len(b) THEN "Less"
    ELSE IF c = "Equal" /\ Len(a) > Len(b) THEN "Greater"
    ELSE c

cmp(a, b) == cmp_from(a, b, 1)

is_after(a, b) == cmp(a, b) = "Greater"

is_before(a, b) == cmp(a, b) = "Less"

is_ancestor(a, b) == Len(a) < Len(b) /\ cmp(a, b) = "Equal"

\* `self.0.len() - 1` of the root path overflows: a panic under overflow
\* checks; without them i = usize::MAX and the length test answers false.
ends_before_panics(a) == Len(a) = 0 /\ build = "debug"

\* False whenever the two paths differ in length.
ends_before_same_length(a, b) ==
  /\ Len(a) > 0 /\ Len(a) = Len(b)
  /\ Take(a, Len(a) - 1) = Take(b, Len(a) - 1)
  /\ ULess(a[Len(a)], b[Len(a)])

ends_before(a, b) ==
  IF Len(a) = 0 THEN FALSE
  ELSE LET i == Len(a) - 1 IN
       IF i >= Len(b) THEN FALSE
       ELSE Take(a, i) = Take(b, i) /\ ULess(a[i + 1], b[i + 1])

\* `other.0[i]` is read with no test of i against other's length.
RECURSIVE common_from(_, _, _, _)
common_from(a, b, i, acc) ==
  IF i >= Len(a) THEN Some(acc)
  ELSE IF i >= Len(b) THEN PanicPath
  ELSE IF a[i + 1] # b[i + 1] THEN Some(acc)
  ELSE common_from(a, b, i + 1, Append(acc, a[i + 1]))

common(a, b) == common_from(a, b, 0, <<>>)

\* The length test is `i > other.0.len()`: with i = other.0.len() the read
\* of `other.0[i]` is out of range.
ends_after(a, b) ==
  IF Len(a) = 0 THEN (IF build = "debug" THEN PanicBool ELSE Some(FALSE))
  ELSE LET i == Len(a) - 1 IN
       IF i > Len(b) THEN Some(FALSE)
       ELSE IF i = Len(b) THEN PanicBool
       ELSE Some(Take(a, i) = Take(b, i) /\ ULess(b[i + 1], a[i + 1]))

\* Two root paths: `self.0[..self.0.len() - 1]` overflows (debug) or slices
\* out of range (release); both abort.
is_sibling_panics(a, b) == Len(a) = Len(b) /\ Len(a) = 0

is_sibling(a, b) ==
  IF Len(a) # Len(b) \/ Len(a) = 0 THEN FALSE
  ELSE a[Len(a)] # b[Len(b)] /\ Take(a, Len(a) - 1) = Take(b, Len(a) - 1)

\* The first index is the one incremented.
next_first_index(p) ==
  IF Len(p) = 0 THEN NonePath
  ELSE IF AddOverflows(p[1], 1) /\ build = "debug" THEN PanicPath
  ELSE Some([p EXCEPT ![1] = p[1] + 1])

\* last + 1 overflows only at usize::MAX, written -1
next(p) ==
  IF Len(p) = 0 THEN NonePath
  ELSE LET last == p[Len(p)] IN
       IF AddOverflows(last, 1) /\ build = "debug" THEN PanicPath
       ELSE Some(Append(Take(p, Len(p) - 1), last + 1))

parent(p) == IF Len(p) = 0 THEN NonePath ELSE Some(Take(p, Len(p) - 1))

previous(p) ==
  IF Len(p) = 0 THEN NonePath
  ELSE LET last == p[Len(p)] IN
       IF last = 0 THEN NonePath    \* checked_sub(1)?
       ELSE Some(Append(Take(p, Len(p) - 1), last - 1))

\* path.0[i] += k, with i a usize index (a wrapped i is out of range)
IncAt(path, i, k) ==
  IF i < 0 \/ i >= Len(path) THEN PanicPath
  ELSE IF AddOverflows(path[i + 1], k) /\ build = "debug" THEN PanicPath
  ELSE Some([path EXCEPT ![i + 1] = path[i + 1] + k])

\* The index is left as it is.
DecAt_kept(path, i, k) == Some(path)

\* path.0[i] -= k
DecAt(path, i, k) ==
  IF i < 0 \/ i >= Len(path) THEN PanicPath
  ELSE IF SubOverflows(path[i + 1], k) /\ build = "debug" THEN PanicPath
  ELSE Some([path EXCEPT ![i + 1] = path[i + 1] - k])

transform_InsertNode(path, o) ==
  IF o # path /\ ends_before_panics(o) THEN PanicPath
  ELSE IF o = path \/ ends_before(o, path) \/ is_ancestor(o, path)
       THEN IncAt(path, Len(o) - 1, 1)
       ELSE Some(path)

\* The removed subtree is dropped, the paths after it keep their index.
transform_RemoveNode_unshifted(path, o) ==
  IF o = path \/ is_ancestor(o, path) THEN NonePath ELSE Some(path)

transform_RemoveNode(path, o) ==
  IF o = path \/ is_ancestor(o, path) THEN NonePath
  ELSE IF ends_before_panics(o) THEN PanicPath
  ELSE IF ends_before(o, path) THEN DecAt(path, Len(o) - 1, 1)
  ELSE Some(path)

\* Below the merged node the index is shifted but `position` is not added.
transform_MergeNode_shift_only(path, o, position) ==
  IF o # path /\ ends_before_panics(o) THEN PanicPath
  ELSE IF o = path \/ ends_before(o, path) \/ is_ancestor(o, path)
       THEN DecAt(path, Len(o) - 1, 1)
       ELSE Some(path)

transform_MergeNode(path, o, position) ==
  IF o # path /\ ends_before_panics(o) THEN PanicPath
  ELSE IF o = path \/ ends_before(o, path) THEN DecAt(path, Len(o) - 1, 1)
  ELSE IF is_ancestor(o, path)
       THEN AndThen(DecAt(path, Len(o) - 1, 1),
                    LAMBDA q : IncAt(q, Len(o), position))
       ELSE Some(path)

transform_SplitNode(path, o, position, affinity) ==
  IF o = path
  THEN IF affinity = "Forward" THEN IncAt(path, Len(path) - 1, 1)
       ELSE IF affinity = "Backward" THEN Some(path)
       ELSE NonePath
  ELSE IF ends_before_panics(o) THEN PanicPath
  ELSE IF ends_before(o, path) THEN IncAt(path, Len(o) - 1, 1)
  ELSE IF is_ancestor(o, path) /\ ULeq(position, path[Len(o) + 1])
       THEN AndThen(IncAt(path, Len(o) - 1, 1),
                    LAMBDA q : DecAt(q, Len(o), position))
       ELSE Some(path)

\* The path below the new path as given, the shift the removal of the moved
\* node causes left out.
transform_MoveNode_unshifted(path, o, onp) ==
  Some(onp \o Drop(path, Len(o)))

\* The arm's first branch: the path is the moved node or lies below it.
transform_MoveNode_moved(path, o, onp) ==
  IF ends_before_panics(o) THEN PanicPath
  ELSE AndThen(IF ends_before(o, onp) /\ Len(o) < Len(onp)
               THEN DecAt(onp, Len(o) - 1, 1)
               ELSE Some(onp),
               LAMBDA q : Some(q \o Drop(path, Len(o))))

\* Every path is taken for one at or below the moved node.
transform_MoveNode_all_moved(path, o, onp) ==
  transform_MoveNode_moved(path, o, onp)

transform_MoveNode(path, o, onp) ==
  IF o = onp THEN Some(path)
  ELSE IF is_ancestor(o, path) \/ o = path
       THEN transform_MoveNode_moved(path, o, onp)
  ELSE IF is_sibling_panics(o, onp) THEN PanicPath
  ELSE IF is_sibling(o, onp) /\ (is_ancestor(onp, path) \/ onp = path)
       THEN IF ends_before_panics(o) THEN PanicPath
            ELSE IF ends_before(o, path) THEN DecAt(path, Len(o) - 1, 1)
            ELSE IncAt(path, Len(o) - 1, 1)
  ELSE IF ends_before_panics(onp) THEN PanicPath
  ELSE IF ends_before(onp, path) \/ onp = path \/ is_ancestor(onp, path)
       THEN IF ends_before_panics(o) THEN PanicPath
            ELSE AndThen(IF ends_before(o, path)
                         THEN DecAt(path, Len(o) - 1, 1)
                         ELSE Some(path),
                         LAMBDA q : IncAt(q, Len(onp) - 1, 1))
  ELSE IF ends_before_panics(o) THEN PanicPath
  ELSE IF ends_before(o, path)
       THEN AndThen(IF onp = path
                    THEN IncAt(path, Len(onp) - 1, 1)
                    ELSE Some(path),
                    LAMBDA q : DecAt(q, Len(o) - 1, 1))
  ELSE Some(path)

\* The arms are run for the root path as for any other.
transform_root_as_any(path, operation, affinity) ==
  CASE operation.type = "InsertNode" ->
         transform_InsertNode(path, operation.path)
    [] operation.type = "RemoveNode" ->
         transform_RemoveNode(path, operation.path)
    [] operation.type = "MergeNode" ->
         transform_MergeNode(path, operation.path, operation.position)
    [] operation.type = "SplitNode" ->
         transform_SplitNode(path, operation.path, operation.position, affinity)
    [] operation.type = "MoveNode" ->
         transform_MoveNode(path, operation.path, operation.new_path)
    [] OTHER -> Some(path)

\* Path::transform
transform(path, operation, affinity) ==
  IF Len(path) = 0 THEN Some(path)
  ELSE CASE operation.type = "InsertNode" ->
              transform_InsertNode(path, operation.path)
         [] operation.type = "RemoveNode" ->
              transform_RemoveNode(path, operation.path)
         [] operation.type = "MergeNode" ->
              transform_MergeNode(path, operation.path, operation.position)
         [] operation.type = "SplitNode" ->
              transform_SplitNode(path, operation.path, operation.position, affinity)
         [] operation.type = "MoveNode" ->
              transform_MoveNode(path, operation.path, operation.new_path)
         [] OTHER -> Some(path)

(***************************************************************************)
(* Text, Node, Point, Range values                                         *)
(***************************************************************************)
\* Text(String, Marks, HashSet<String>)
Text(string, marks, meta) == [string |-> string, marks |-> marks, meta |-> meta]

\* Text::new
Text_new(string) == Text(string, {}, {})

\* enum Node / Descendant.  Every node carries the three fields; an Element
\* or Editor has the empty leaf, a Text has no children.  The Editor's
\* selection, operations and marks stay as Editor::new sets them.
TextNode(leaf) == [kind |-> "Text", leaf |-> leaf, children |-> <<>>]

ElementNode(children) ==
  [kind |-> "Element", leaf |-> Text_new(<<>>), children |-> children]

EditorNode(children) ==
  [kind |-> "Editor", leaf |-> Text_new(<<>>), children |-> children]

Point(path, offset) == [path |-> path, offset |-> offset]

Range(anchor, focus) == [anchor |-> anchor, focus |-> focus]

(***************************************************************************)
(* Operation  (types/operation.rs)                                         *)
(*                                                                         *)
(* One record shape for the nine variants; a field a variant does not have *)
(* keeps the value it has in BlankOp.  node: InsertNode/RemoveNode;        *)
(* properties: MergeNode/SplitNode; set_*: SetNode's Option<Node>; sel_*:  *)
(* SetSelection's Option<Range>.  An Option field is <<>> (None) or <<x>>. *)
(***************************************************************************)
BlankNode == [kind |-> "", leaf |-> Text_new(<<>>), children |-> <<>>]

BlankOp ==
  [type |-> "", path |-> <<>>, new_path |-> <<>>, offset |-> 0, position |-> 0,
   text |-> <<>>, node |-> BlankNode, properties |-> BlankNode,
   set_properties |-> <<>>, set_new_properties |-> <<>>,
   sel_properties |-> <<>>, sel_new_properties |-> <<>>]

InsertNode(node, path) ==
  [BlankOp EXCEPT !.type = "InsertNode", !.node = node, !.path = path]

RemoveNode(path, node) ==
  [BlankOp EXCEPT !.type = "RemoveNode", !.node = node, !.path = path]

InsertText(path, offset, text) ==
  [BlankOp EXCEPT !.type = "InsertText", !.path = path, !.offset = offset,
                  !.text = text]

RemoveText(path, offset, text) ==
  [BlankOp EXCEPT !.type = "RemoveText", !.path = path, !.offset = offset,
                  !.text = text]

MergeNode(path, position, properties) ==
  [BlankOp EXCEPT !.type = "MergeNode", !.path = path, !.position = position,
                  !.properties = properties]

SplitNode(path, position, properties) ==
  [BlankOp EXCEPT !.type = "SplitNode", !.path = path, !.position = position,
                  !.properties = properties]

MoveNode(path, new_path) ==
  [BlankOp EXCEPT !.type = "MoveNode", !.path = path, !.new_path = new_path]

SetNode(path, properties, new_properties) ==
  [BlankOp EXCEPT !.type = "SetNode", !.path = path,
                  !.set_properties = properties,
                  !.set_new_properties = new_properties]

SetSelection(path, properties, new_properties) ==
  [BlankOp EXCEPT !.type = "SetSelection", !.path = path,
                  !.sel_properties = properties,
                  !.sel_new_properties = new_properties]

NoneOp == [st |-> "none", v |-> BlankOp]

PanicOp == [st |-> "panic", v |-> BlankOp]

\* path.previous().expect("to have previous")
inverse_MergeNode(o) ==
  LET prev == previous(o.path) IN
  IF prev.st # "some" THEN PanicOp
  ELSE Some(SplitNode(prev.v, o.position, o.properties))

\* A merge at the split path itself, not at the path after it.
inverse_SplitNode_same_path(o) ==
  IF Len(o.path) = 0 THEN PanicOp
  ELSE Some(MergeNode(o.path, o.position, o.properties))

\* path.next().expect("to have next")
inverse_SplitNode(o) ==
  LET nxt == next(o.path) IN
  IF nxt.st # "some" THEN PanicOp
  ELSE Some(MergeNode(nxt.v, o.position, o.properties))

inverse_MoveNode(o) ==
  IF o.path = o.new_path THEN Some(o)
  ELSE IF is_sibling_panics(o.path, o.new_path) THEN PanicOp
  ELSE IF is_sibling(o.path, o.new_path) THEN Some(MoveNode(o.new_path, o.path))
  ELSE LET inverse_path == transform(o.path, o, DefaultAffinity)
           nxt == next(o.path)
           inverse_new_path ==
             IF nxt.st # "some" THEN PanicPath
             ELSE transform(nxt.v, o, DefaultAffinity)
       IN  IF inverse_path.st # "some" \/ inverse_new_path.st # "some"
           THEN PanicOp
           ELSE Some(MoveNode(inverse_path.v, inverse_new_path.v))

inverse_SetSelection(o) ==
  IF o.sel_properties = <<>>
  THEN Some(SetSelection(o.path, o.sel_new_properties, <<>>))
  ELSE IF o.sel_new_properties = <<>>
       THEN Some(SetSelection(o.path, <<>>, o.sel_properties))
       ELSE Some(SetSelection(o.path, o.sel_new_properties, o.sel_properties))

\* Operation::inverse
inverse(o) ==
  CASE o.type = "InsertNode" -> Some(RemoveNode(o.path, o.node))
    [] o.type = "InsertText" -> Some(RemoveText(o.path, o.offset, o.text))
    [] o.type = "MergeNode" -> inverse_MergeNode(o)
    [] o.type = "MoveNode" -> inverse_MoveNode(o)
    [] o.type = "RemoveNode" -> Some(InsertNode(o.node, o.path))
    [] o.type = "RemoveText" -> Some(InsertText(o.path, o.offset, o.text))
    [] o.type = "SetNode" ->
         Some(SetNode(o.path, o.set_new_properties, o.set_properties))
    [] o.type = "SetSelection" -> inverse_SetSelection(o)
    [] o.type = "SplitNode" -> inverse_SplitNode(o)

(***************************************************************************)
(* Node and NodeIterator  (types/node.rs, editor.rs, element.rs)           *)
(***************************************************************************)
NoneNode == [st |-> "none", v |-> BlankNode]

\* Node::child_node / Node::child
child_node(node, i) ==
  IF node.kind = "Text" THEN NoneNode
  ELSE IF i < 0 \/ i >= Len(node.children) THEN NoneNode
  ELSE Some(node.children[i + 1])

has_children(node) == node.kind # "Text" /\ Len(node.children) > 0

num_children(node) == IF node.kind = "Text" THEN 0 ELSE Len(node.children)

\* Node::get
RECURSIVE get_from(_, _, _)
get_from(node, path, i) ==
  IF i > Len(path) THEN Some(node)
  ELSE LET c == child_node(node, path[i]) IN
       IF c.st = "some" THEN get_from(c.v, path, i + 1) ELSE NoneNode

get(node, path) == get_from(node, path, 1)

\* Node::has
RECURSIVE has_from(_, _, _)
has_from(node, path, i) ==
  IF i > Len(path) THEN TRUE
  ELSE LET nxt == child_node(node, path[i]) IN
       IF node.kind = "Text" \/ nxt.st = "none" THEN FALSE
       ELSE has_from(nxt.v, path, i + 1)

has(node, path) == has_from(node, path, 1)

\* type NodeEntry = (Box<Node>, Path)
NodeEntry(node, path) == [node |-> node, path |-> path]

BlankEntry == NodeEntry(BlankNode, <<>>)

NoneEntry == [st |-> "none", v |-> BlankEntry]

PanicEntry == [st |-> "panic", v |-> BlankEntry]

\* Node::nodes leaves these fields of the iterator as it sets them:
\* from: Path::new(vec![]), to: None, pass: None.
self_from == <<>>

self_to == NonePath

self_pass_is_none == TRUE

\* next(): the `to` bound is passed
next_past_to ==
  /\ self_to.st = "some"
  /\ \/ self_reverse /\ is_before(self_p, self_to.v)
     \/ is_after(self_p, self_to.v)

\* An entry is returned whether or not the path has been visited.
next_out_every_call == Some(NodeEntry(self_n, self_p))

\* next(): `out`
next_out ==
  IF self_p \notin self_visited THEN Some(NodeEntry(self_n, self_p))
  ELSE NoneEntry

\* next(): allowed to go downward and not descended yet (pass is None, so
\* `pass` is false and `self.pass.is_none() || pass` holds)
next_descends ==
  /\ self_p \notin self_visited
  /\ self_n.kind # "Text"
  /\ has_children(self_n)
  /\ self_pass_is_none

\* next(): the index descended to
next_index ==
  IF is_ancestor(self_p, self_from) THEN self_from[Len(self_p) + 1]
  ELSE IF self_reverse THEN num_children(self_n) - 1
  ELSE 0

\* next(): `self.p.get(self.p.len() - 6) != Some(0)`.  With fewer than six
\* indices the subtraction overflows: a panic under overflow checks, and
\* get(a wrapped index) = None without them.
next_backward_panics == Len(self_p) < 6 /\ build = "debug"

next_backward ==
  IF Len(self_p) < 6 THEN TRUE ELSE self_p[Len(self_p) - 6 + 1] # 0

\* next(): the iterator after the call and what the call returns
IterState(ret, node, path, seen) ==
  [ret |-> ret, n |-> node, p |-> path, visited |-> seen]

next_moved(path, seen) ==
  IterState(next_out, get(self_root, path).v, path, seen)

next_panics == IterState(PanicEntry, self_n, self_p, self_visited)

next_result ==
  IF next_past_to
    THEN IterState(NoneEntry, self_n, self_p, self_visited)
  ELSE IF next_descends
    THEN next_moved(concat(self_p, next_index), self_visited \cup {self_p})
  ELSE IF Len(self_p) = 0
    THEN IterState(next_out, self_n, self_p, self_visited)
  ELSE IF ~self_reverse /\ next(self_p).st = "panic"
    THEN next_panics
  ELSE IF ~self_reverse /\ has(self_root, next(self_p).v)
    THEN next_moved(next(self_p).v, self_visited)
  ELSE IF self_reverse /\ next_backward_panics
    THEN next_panics
  ELSE IF self_reverse /\ next_backward
    THEN IF previous(self_p).st = "some"
           THEN next_moved(previous(self_p).v, self_visited)
           ELSE next_panics
  ELSE next_moved(parent(self_p).v, self_visited \cup {parent(self_p).v})

(***************************************************************************)
(* The documents the drivers draw: every Editor tree of at most MaxNodes   *)
(* nodes whose leaves are Text("a") or empty Elements.                     *)
(***************************************************************************)
RECURSIVE DescendantsOfSize(_), ForestsOfSize(_)
DescendantsOfSize(k) ==
  (IF k = 1 THEN {TextNode(Text_new(<<"a">>))} ELSE {})
    \cup {ElementNode(f) : f \in ForestsOfSize(k - 1)}

ForestsOfSize(k) ==
  IF k = 0 THEN {<<>>}
  ELSE UNION {{<<d>> \o f : d \in DescendantsOfSize(j),
                            f \in ForestsOfSize(k - j)} : j \in 1..k}

Documents ==
  {EditorNode(f) : f \in UNION {ForestsOfSize(k) : k \in 0..(MaxNodes - 1)}}

(***************************************************************************)
(* Point  (types/point.rs)                                                 *)
(***************************************************************************)
BlankPoint == Point(<<>>, 0)

NonePoint == [st |-> "none", v |-> BlankPoint]

PanicPoint == [st |-> "panic", v |-> BlankPoint]

\* min(a, b) on usize
umin(a, b) == IF ULess(b, a) THEN b ELSE a

\* point.path = Path::transform(p, op, affinity).unwrap()
with_unwrapped_path(pt, r) ==
  IF r.st = "some" THEN Some([pt EXCEPT !.path = r.v]) ELSE PanicPoint

\* point.offset += k
add_offset(pt, k) ==
  IF AddOverflows(pt.offset, k) /\ build = "debug" THEN PanicPoint
  ELSE Some([pt EXCEPT !.offset = pt.offset + k])

\* point.offset -= k
sub_offset(pt, k) ==
  IF SubOverflows(pt.offset, k) /\ build = "debug" THEN PanicPoint
  ELSE Some([pt EXCEPT !.offset = pt.offset - k])

Point_transform_InsertText(pt, o) ==
  IF o.path = pt.path /\ ULeq(o.offset, pt.offset)
  THEN add_offset(pt, Len(o.text))
  ELSE Some(pt)

\* The path handed to Path::transform is the operation's (oppath).
Point_transform_MergeNode(pt, o, affinity) ==
  AndThen(IF o.path = pt.path THEN add_offset(pt, o.position) ELSE Some(pt),
          LAMBDA q : with_unwrapped_path(q, transform(o.path, o, affinity)))

\* min(opoffset - opoffset, text.len()); the path handed to Path::transform
\* is the operation's (oppath).
Point_transform_RemoveText(pt, o, affinity) ==
  AndThen(IF o.path = pt.path \/ is_ancestor(o.path, pt.path)
          THEN sub_offset(pt, umin(o.offset - o.offset, Len(o.text)))
          ELSE Some(pt),
          LAMBDA q : with_unwrapped_path(q, transform(o.path, o, affinity)))

\* The path handed to Path::transform is the operation's (oppath).
Point_transform_RemoveNode(pt, o, affinity) ==
  IF o.path = pt.path \/ is_ancestor(o.path, pt.path) THEN NonePoint
  ELSE with_unwrapped_path(pt, transform(o.path, o, affinity))

\* A split exactly at the point's offset leaves the point where it is.
Point_transform_SplitNode_strict(pt, o, affinity) ==
  IF o.path = pt.path
  THEN IF o.position = pt.offset /\ affinity = "None" THEN NonePoint
       ELSE IF ULess(o.position, pt.offset)
            THEN AndThen(sub_offset(pt, o.position),
                         LAMBDA q : with_unwrapped_path(
                                      q, transform(pt.path, o, "Forward")))
            ELSE Some(pt)
  ELSE with_unwrapped_path(pt, transform(pt.path, o, affinity))

Point_transform_SplitNode(pt, o, affinity) ==
  IF o.path = pt.path
  THEN IF o.position = pt.offset /\ affinity = "None" THEN NonePoint
       ELSE IF ULess(o.position, pt.offset)
               \/ (o.position = pt.offset /\ affinity = "Forward")
            THEN AndThen(sub_offset(pt, o.position),
                         LAMBDA q : with_unwrapped_path(
                                      q, transform(pt.path, o, "Forward")))
            ELSE Some(pt)
  ELSE with_unwrapped_path(pt, transform(pt.path, o, affinity))

\* Point::transform
Point_transform(pt, o, affinity) ==
  CASE o.type \in {"InsertNode", "MoveNode"} ->
         with_unwrapped_path(pt, transform(pt.path, o, affinity))
    [] o.type = "InsertText" -> Point_transform_InsertText(pt, o)
    [] o.type = "MergeNode" -> Point_transform_MergeNode(pt, o, affinity)
    [] o.type = "RemoveText" -> Point_transform_RemoveText(pt, o, affinity)
    [] o.type = "RemoveNode" -> Point_transform_RemoveNode(pt, o, affinity)
    [] o.type = "SplitNode" -> Point_transform_SplitNode(pt, o, affinity)
    [] OTHER -> Some(pt)

(***************************************************************************)
(* Range  (types/range.rs)                                                 *)
(***************************************************************************)
\* impl Ord for Point
Point_cmp(a, b) ==
  IF cmp(a.path, b.path) # "Equal" THEN cmp(a.path, b.path)
  ELSE IF a.offset = b.offset THEN "Equal"
  ELSE IF ULess(a.offset, b.offset) THEN "Less" ELSE "Greater"

Point_is_after(a, b) == Point_cmp(a, b) = "Greater"

Point_is_before(a, b) == Point_cmp(a, b) = "Less"

\* range::Affinity
RangeAffinities == {"Forward", "Backward", "Outward", "Inward", "None"}

BlankRange == Range(BlankPoint, BlankPoint)

NoneRange == [st |-> "none", v |-> BlankRange]

PanicRange == [st |-> "panic", v |-> BlankRange]

is_backward(r) == Point_is_after(r.anchor, r.focus)

is_forward(r) == ~is_backward(r)

\* Range::edges: (start, end)
edges(r, reverse) ==
  IF is_backward(r) = reverse
    THEN [start |-> r.anchor, end |-> r.focus]
    ELSE [start |-> r.focus, end |-> r.anchor]

\* Range::includes_point
includes_point(r, target) ==
  LET e == edges(r, FALSE) IN
    /\ Point_cmp(target, e.start) # "Less"
    /\ Point_cmp(target, e.end) # "Greater"

\* Range::includes_range: the last line tests `re.is_before(te)`
includes_range(r, target) ==
  IF includes_point(r, target.anchor) \/ includes_point(r, target.focus)
  THEN TRUE
  ELSE LET re == edges(r, FALSE)
           te == edges(target, FALSE)
       IN Point_is_before(re.start, te.start) /\ Point_is_before(re.end, te.end)

\* Range::intersection: both pairs of edges are read from `self`
intersection(self, another) ==
  LET s1 == edges(self, FALSE).start
      e1 == edges(self, FALSE).end
      s2 == edges(self, FALSE).start
      e2 == edges(self, FALSE).end
      start == IF Point_is_before(s1, s2) THEN s2 ELSE s1
      end == IF Point_is_before(e1, e2) THEN e1 ELSE e2
  IN IF Point_is_before(end, start) THEN NoneRange
     ELSE Some(Range(start, end))

\* Range::transform: (affinityAnchor, affinityFocus)
affinityAnchor(r, affinity) ==
  CASE affinity = "Inward" ->
         IF is_forward(r) THEN "Forward" ELSE "Backward"
    [] affinity = "Outward" ->
         IF is_forward(r) THEN "Backward" ELSE "Forward"
    [] OTHER -> affinity

affinityFocus(r, affinity) ==
  CASE affinity = "Inward" ->
         IF is_forward(r) THEN "Backward" ELSE "Forward"
    [] affinity = "Outward" ->
         IF is_forward(r) THEN "Forward" ELSE "Backward"
    [] OTHER -> affinity

\* Range::transform: both points are transformed from `range.anchor`
Range_transform(r, o, affinity) ==
  LET anchor == Point_transform(r.anchor, o, affinityAnchor(r, affinity))
      focus == Point_transform(r.anchor, o, affinityFocus(r, affinity))
  IN IF anchor.st = "panic" \/ focus.st = "panic" THEN PanicRange
     ELSE IF anchor.st = "none" \/ focus.st = "none" THEN NoneRange
     ELSE Some(Range(anchor.v, focus.v))

(***************************************************************************)
(* Text  (types/text.rs).  A String is its sequence of UTF-8 bytes, each   *)
(* byte written as a one-character string or, for the two bytes of a       *)
(* two-byte character, as "C3" and "A9".                                   *)
(***************************************************************************)
ContinuationBytes == {"A9"}

\* str::is_char_boundary
is_char_boundary(string, k) ==
  \/ k = 0
  \/ k = Len(string)
  \/ k < Len(string) /\ string[k + 1] \notin ContinuationBytes

\* string[a..b] does not panic
slice_ok(string, a, b) ==
  /\ a <= b /\ b <= Len(string)
  /\ is_char_boundary(string, a) /\ is_char_boundary(string, b)

NoLeaves == [st |-> "some", v |-> <<>>]

PanicLeaves == [st |-> "panic", v |-> <<>>]

\* decorations(): the range encompasses the entire leaf
encompasses_from_start(start, end, offset, len) == start.offset <= offset

encompasses(start, end, offset, len) ==
  start.offset <= offset /\ end.offset >= offset + len

\* decorations(): the range starts after the leaf, or ends before it
misses(start, end, offset, len) ==
  \/ start.offset > offset + len
  \/ end.offset < offset
  \/ (end.offset = offset /\ offset # 0)

\* decorations(): the leaf is split at the end, at the start, or both
split_middle_only(leaf, offset, start, end, dec) ==
  Some(<<Text(SubSeq(leaf.string, start.offset - offset + 1,
                     end.offset - offset),
              leaf.marks, leaf.meta \cup dec)>>)

split(leaf, offset, start, end, dec) ==
  LET len == Len(leaf.string)
      at_end == end.offset < offset + len
      off_end == end.offset - offset
      after == Text(Drop(leaf.string, off_end), leaf.marks, leaf.meta)
      middle1 == IF at_end THEN Take(leaf.string, off_end) ELSE leaf.string
      at_start == start.offset > offset
      off_start == start.offset - offset
      before == Text(Take(middle1, off_start), leaf.marks, leaf.meta)
      middle2 == IF at_start THEN Drop(middle1, off_start) ELSE middle1
  IN IF at_end /\ ~slice_ok(leaf.string, off_end, len) THEN PanicLeaves
     ELSE IF at_start /\ ~slice_ok(middle1, off_start, Len(middle1))
       THEN PanicLeaves
     ELSE Some((IF at_start THEN <<before>> ELSE <<>>)
                 \o <<Text(middle2, leaf.marks, leaf.meta \cup dec)>>
                 \o (IF at_end THEN <<after>> ELSE <<>>))

\* decorations(): what one leaf pushes to `next`
decorate_leaf(leaf, offset, start, end, dec) ==
  IF encompasses(start, end, offset, Len(leaf.string))
    THEN Some(<<Text(leaf.string, leaf.marks, leaf.meta \cup dec)>>)
  ELSE IF misses(start, end, offset, Len(leaf.string))
    THEN Some(<<leaf>>)
  ELSE split(leaf, offset, start, end, dec)

\* decorations(): the inner loop over `leaves` from leaf i on, `o` running
RECURSIVE decorate_from(_, _, _, _, _, _)
decorate_from(ls, i, o, start, end, dec) ==
  IF i > Len(ls) THEN NoLeaves
  ELSE LET here == decorate_leaf(ls[i], o, start, end, dec)
           rest == decorate_from(ls, i + 1, o + Len(ls[i].string),
                                 start, end, dec)
       IN IF here.st = "panic" \/ rest.st = "panic" THEN PanicLeaves
          ELSE Some(here.v \o rest.v)

\* decorations(): one pass of the outer loop, for the decoration (range, dec)
decorate(ls, decoration) ==
  decorate_from(ls, 1, 0, edges(decoration.range, FALSE).start,
                edges(decoration.range, FALSE).end, decoration.dec)

(***************************************************************************)
(* The operations the driver draws                                         *)
(***************************************************************************)
Offsets == 0..MaxOffset

OpTexts == {<<>>, <<"a">>, <<"a", "b">>}

OpNodes == {TextNode(Text_new(<<"a">>)), ElementNode(<<>>)}

OptNodes == {<<>>} \cup {<<nd>> : nd \in OpNodes}

SelRanges ==
  {Range(Point(<<0>>, 0), Point(<<0>>, 1)),
   Range(Point(<<1>>, 1), Point(<<0>>, 0))}

OptRanges == {<<>>} \cup {<<r>> : r \in SelRanges}

NodeOps ==
  {InsertNode(nd, q) : nd \in OpNodes, q \in Paths}
    \cup {RemoveNode(q, nd) : nd \in OpNodes, q \in Paths}

TextOps ==
  UNION {{InsertText(q, k, t), RemoveText(q, k, t)} :
           q \in Paths, k \in Offsets, t \in OpTexts}

MergeSplitOps ==
  UNION {{MergeNode(q, k, nd), SplitNode(q, k, nd)} :
           q \in Paths, k \in Offsets, nd \in OpNodes}

MoveOps == {MoveNode(q, r) : q \in Paths, r \in Paths}

SetOps ==
  {SetNode(q, a, b) : q \in Paths, a \in OptNodes, b \in OptNodes}
    \cup {SetSelection(q, a, b) : q \in Paths, a \in OptRanges, b \in OptRanges}

Operations == NodeOps \cup TextOps \cup MergeSplitOps \cup MoveOps \cup SetOps

(***************************************************************************)
(* Drivers.  Each draws its inputs in its initial state and applies the    *)
(* functions under study one call per step; the variables of the other     *)
(* drivers stay idle.                                                      *)
(***************************************************************************)
InverseIdle == inv = NoneOp /\ inv2 = NoneOp

PathIdle == arg_path = <<>> /\ tpath = NonePath /\ tback = NonePath

PointIdle ==
  arg_point = BlankPoint /\ tpoint = NonePoint /\ tpointback = NonePoint

TreeIdle == doc = BlankNode /\ doc2 = <<>>

IterIdle ==
  /\ self_root = BlankNode /\ self_n = BlankNode /\ self_p = <<>>
  /\ self_reverse = FALSE /\ self_visited = {}
  /\ out = NoneEntry /\ yielded = <<>> /\ ended = FALSE /\ calls = 0
  /\ emitted = <<>>

RangeIdle ==
  /\ arg_range = BlankRange /\ arg_another = BlankRange
  /\ range_affinity = "Inward" /\ trange = NoneRange /\ isect = NoneRange
  /\ includes_out = NoBool

TextIdle ==
  /\ arg_text = Text_new(<<>>) /\ arg_decorations = <<>>
  /\ leaves = <<>> /\ decorated = 0

NoOrderings == [ab |-> "", ba |-> "", bc |-> "", ac |-> ""]

NoCommons == [ab |-> NonePath, ba |-> NonePath, aa |-> NonePath]

NoEnds == [before |-> NoBool, after |-> NoBool]

OrderIdle ==
  /\ path_a = <<>> /\ path_b = <<>> /\ path_c = <<>>
  /\ cmp_out = NoOrderings /\ common_out = NoCommons
  /\ ends_out = NoEnds /\ next_a = NonePath

\* Operation::inverse, applied to an operation and then to its inverse.
InverseInit ==
  /\ build \in Builds
  /\ op \in Operations
  /\ pc = "start"
  /\ arg_affinity = DefaultAffinity
  /\ InverseIdle
  /\ PathIdle
  /\ PointIdle
  /\ TreeIdle
  /\ IterIdle
  /\ RangeIdle
  /\ TextIdle
  /\ OrderIdle

Invert ==
  /\ pc = "start"
  /\ inv' = inverse(op)
  /\ pc' = "inverted"
  /\ UNCHANGED <<build, op, arg_affinity, inv2, pathVars, pointVars, treeVars, iterVars, rangeVars,
               textVars, orderVars>>

InvertAgain ==
  /\ pc = "inverted"
  /\ inv.st = "some"
  /\ inv2' = inverse(inv.v)
  /\ pc' = "done"
  /\ UNCHANGED <<build, op, arg_affinity, inv, pathVars, pointVars, treeVars, iterVars, rangeVars,
               textVars, orderVars>>

InverseNext == Invert \/ InvertAgain

SpecInverse == InverseInit /\ [][InverseNext]_vars

\* The payload a transform does not read, fixed to one value per variant.
PlainOps ==
  {o \in Operations :
     /\ o.node \in {BlankNode, ElementNode(<<>>)}
     /\ o.properties \in {BlankNode, ElementNode(<<>>)}
     /\ o.set_properties = <<>> /\ o.set_new_properties = <<>>
     /\ o.sel_properties = <<>> /\ o.sel_new_properties = <<>>}

\* Path::transform through an operation, then through its inverse.  Only the
\* SplitNode arm reads the affinity, and a MergeNode's inverse is a SplitNode;
\* the root path is transformed under every affinity.
PathInit ==
  /\ build \in Builds
  /\ op \in {o \in PlainOps : o.type \notin {"InsertText", "RemoveText"}
                                \/ (o.offset = 0 /\ o.text = <<"a">>)}
  /\ arg_path \in Paths
  /\ arg_affinity \in IF op.type \in {"SplitNode", "MergeNode"}
                          \/ arg_path = <<>>
                       THEN Affinities ELSE {DefaultAffinity}
  /\ pc = "start"
  /\ tpath = NonePath /\ tback = NonePath
  /\ InverseIdle
  /\ PointIdle
  /\ TreeIdle
  /\ IterIdle
  /\ RangeIdle
  /\ TextIdle
  /\ OrderIdle

PathTransform ==
  /\ pc = "start"
  /\ tpath' = transform(arg_path, op, arg_affinity)
  /\ inv' = inverse(op)
  /\ pc' = "transformed"
  /\ UNCHANGED <<build, op, arg_affinity, inv2, arg_path, tback, pointVars,
               treeVars, iterVars, rangeVars,
               textVars, orderVars>>

PathTransformBack ==
  /\ pc = "transformed"
  /\ tpath.st = "some"
  /\ inv.st = "some"
  /\ tback' = transform(tpath.v, inv.v, arg_affinity)
  /\ pc' = "done"
  /\ UNCHANGED <<build, op, arg_affinity, inverseVars, arg_path, tpath,
               pointVars, treeVars, iterVars, rangeVars,
               textVars, orderVars>>

PathNext == PathTransform \/ PathTransformBack

SpecPath == PathInit /\ [][PathNext]_vars

\* Point::transform through an operation, then through its inverse.
Points == {Point(q, k) : q \in Paths, k \in Offsets}

PointInit ==
  /\ build \in Builds
  /\ op \in PlainOps
  /\ arg_affinity \in Affinities
  /\ arg_point \in Points
  /\ pc = "start"
  /\ tpoint = NonePoint /\ tpointback = NonePoint
  /\ InverseIdle
  /\ PathIdle
  /\ TreeIdle
  /\ IterIdle
  /\ RangeIdle
  /\ TextIdle
  /\ OrderIdle

PointTransform ==
  /\ pc = "start"
  /\ tpoint' = Point_transform(arg_point, op, arg_affinity)
  /\ inv' = inverse(op)
  /\ pc' = "transformed"
  /\ UNCHANGED <<build, op, arg_affinity, inv2, arg_point, tpointback,
               pathVars, treeVars, iterVars, rangeVars,
               textVars, orderVars>>

PointTransformBack ==
  /\ pc = "transformed"
  /\ tpoint.st = "some"
  /\ inv.st = "some"
  /\ tpointback' = Point_transform(tpoint.v, inv.v, arg_affinity)
  /\ pc' = "done"
  /\ UNCHANGED <<build, op, arg_affinity, inverseVars, arg_point, tpoint,
               pathVars, treeVars, iterVars, rangeVars,
               textVars, orderVars>>

PointNext == PointTransform \/ PointTransformBack

\* Point::transform through a SplitNode, once.
SplitInit ==
  /\ build \in Builds
  /\ op \in {o \in PlainOps : o.type = "SplitNode"}
  /\ arg_affinity \in Affinities
  /\ arg_point \in Points
  /\ pc = "start"
  /\ tpoint = NonePoint /\ tpointback = NonePoint
  /\ InverseIdle
  /\ PathIdle
  /\ TreeIdle
  /\ IterIdle
  /\ RangeIdle
  /\ TextIdle
  /\ OrderIdle

SpecPointSplit == SplitInit /\ [][PointTransform]_vars

SpecPoint == PointInit /\ [][PointNext]_vars

\* Range::transform and Range::intersection, each called once on a range.
RangePaths == PathsOfLen(1) \cup {<<0, 0>>}

RangePoints == {Point(q, k) : q \in RangePaths, k \in Offsets}

Ranges == {Range(a, f) : a \in RangePoints, f \in RangePoints}

RangeOps ==
  {o \in PlainOps :
     /\ Len(o.path) = 1
     /\ o.type \notin {"SetNode", "SetSelection"}
     /\ o.type = "MoveNode" => Len(o.new_path) = 1
     /\ o.type \in {"InsertText", "RemoveText"} => o.text = <<"a">>}

RangeInit ==
  /\ build \in Builds
  /\ arg_range \in Ranges
  /\ arg_another = BlankRange
  /\ range_affinity = "Inward"
  /\ trange = NoneRange /\ isect = NoneRange /\ includes_out = NoBool
  /\ op = BlankOp /\ arg_affinity = DefaultAffinity
  /\ pc = "start"
  /\ InverseIdle /\ PathIdle /\ PointIdle /\ TreeIdle /\ IterIdle /\ TextIdle
  /\ OrderIdle

RangeTransform ==
  /\ pc = "start"
  /\ \E o \in RangeOps, a \in RangeAffinities :
       /\ op' = o
       /\ range_affinity' = a
       /\ trange' = Range_transform(arg_range, o, a)
  /\ pc' = "range_transformed"
  /\ UNCHANGED <<build, arg_affinity, inverseVars, pathVars, pointVars,
                 treeVars, iterVars, arg_range, arg_another, isect, includes_out,
                 textVars, orderVars>>

RangeIntersection ==
  /\ pc = "start"
  /\ \E b \in Ranges :
       /\ arg_another' = b
       /\ isect' = intersection(arg_range, b)
  /\ pc' = "intersected"
  /\ UNCHANGED <<build, op, arg_affinity, inverseVars, pathVars, pointVars,
                 treeVars, iterVars, arg_range, range_affinity, trange,
                 includes_out, textVars, orderVars>>

RangeIncludes ==
  /\ pc = "start"
  /\ \E b \in Ranges :
       /\ arg_another' = b
       /\ includes_out' = Some(includes_range(arg_range, b))
  /\ pc' = "included"
  /\ UNCHANGED <<build, op, arg_affinity, inverseVars, pathVars, pointVars,
                 treeVars, iterVars, arg_range, range_affinity, trange,
                 isect, textVars, orderVars>>

RangeNext == RangeTransform \/ RangeIntersection \/ RangeIncludes

SpecRange == RangeInit /\ [][RangeNext]_vars

\* Text::decorations on a leaf, one decoration of the list per step.
Alphabet == <<"a", "b", "c", "d", "e", "f", "g", "h">>

LeafStrings ==
  {SubSeq(Alphabet, 1, k) : k \in 0..MaxLen} \cup {<<"C3", "A9", "a">>}

LeafTexts ==
  {Text(string, {}, {"test"}) : string \in LeafStrings}
    \cup {Text(string, {"BOLD"}, {}) : string \in LeafStrings}

\* The ranges of the decorations of a string: forward or collapsed on the
\* leaf, backward over the whole leaf, or from a point of the leaf to the
\* start of the next leaf.
DecorationRanges(string) ==
  UNION {{Range(Point(<<0>>, a), Point(<<0>>, f)) : f \in a..Len(string)} :
           a \in 0..Len(string)}
    \cup {Range(Point(<<0>>, Len(string)), Point(<<0>>, 0))}
    \cup {Range(Point(<<0>>, a), Point(<<1>>, 0)) : a \in 0..Len(string)}

Decoration(range, dec) == [range |-> range, dec |-> dec]

DecorationTags == <<{"decoration1"}, {"decoration2"}, {"test"}, {}>>

RECURSIVE DecorationLists(_, _)
DecorationLists(string, k) ==
  IF k = 0 THEN {<<>>}
  ELSE {Append(ds, Decoration(r, DecorationTags[((k - 1) % Len(DecorationTags)) + 1])) :
          ds \in DecorationLists(string, k - 1),
          r \in DecorationRanges(string)}

TextInit ==
  /\ build \in Builds
  /\ arg_text \in LeafTexts
  /\ arg_decorations \in
       UNION {DecorationLists(arg_text.string, k) : k \in 0..MaxDecorations}
  /\ leaves = <<arg_text>>
  /\ decorated = 0
  /\ op = BlankOp /\ arg_affinity = DefaultAffinity
  /\ pc = "decorating"
  /\ InverseIdle /\ PathIdle /\ PointIdle /\ TreeIdle /\ IterIdle /\ RangeIdle
  /\ OrderIdle

\* one pass of `for (range, dec) in decorations`
Decorate ==
  /\ pc = "decorating"
  /\ decorated < Len(arg_decorations)
  /\ LET r == decorate(leaves, arg_decorations[decorated + 1]) IN
       /\ pc' = IF r.st = "panic" THEN "aborted" ELSE pc
       /\ leaves' = IF r.st = "panic" THEN leaves ELSE r.v
  /\ decorated' = decorated + 1
  /\ UNCHANGED <<build, op, arg_affinity, inverseVars, pathVars, pointVars,
                 treeVars, iterVars, rangeVars, orderVars, arg_text,
                 arg_decorations>>

\* the loop is over: `leaves` is returned
DecorationsReturn ==
  /\ pc = "decorating"
  /\ decorated = Len(arg_decorations)
  /\ pc' = "returned"
  /\ UNCHANGED <<build, op, arg_affinity, inverseVars, pathVars, pointVars,
                 treeVars, iterVars, rangeVars, textVars, orderVars>>

TextNext == Decorate \/ DecorationsReturn

SpecText == TextInit /\ [][TextNext]_vars

(***************************************************************************)
(* Applying InsertNode and RemoveNode to a document.  The crate leaves     *)
(* this to its callers; it is written here on a copy of the document in    *)
(* which every node carries the path it had before the operation, so that  *)
(* a node can be recognised after it.                                      *)
(***************************************************************************)
RECURSIVE Tagged(_, _)
Tagged(node, path) ==
  [tag |-> path,
   children |-> [i \in 1..num_children(node) |->
                   Tagged(node.children[i], concat(path, i - 1))]]

\* the tag of an inserted node, which is no path
NewTag == <<-1>>

NoTag == <<-2>>

RECURSIVE apply_InsertNode(_, _, _)
apply_InsertNode(t, path, new) ==
  IF Len(path) = 1
    THEN [t EXCEPT !.children = SubSeq(@, 1, path[1]) \o <<new>>
                                  \o SubSeq(@, path[1] + 1, Len(@))]
    ELSE [t EXCEPT !.children[path[1] + 1] =
                      apply_InsertNode(@, Tail(path), new)]

RECURSIVE apply_RemoveNode(_, _)
apply_RemoveNode(t, path) ==
  IF Len(path) = 1
    THEN [t EXCEPT !.children = SubSeq(@, 1, path[1])
                                  \o SubSeq(@, path[1] + 2, Len(@))]
    ELSE [t EXCEPT !.children[path[1] + 1] =
                      apply_RemoveNode(@, Tail(path))]

apply(t, o) ==
  IF o.type = "InsertNode"
    THEN apply_InsertNode(t, o.path, [tag |-> NewTag, children |-> <<>>])
    ELSE apply_RemoveNode(t, o.path)

RECURSIVE TagAt(_, _)
TagAt(t, path) ==
  IF Len(path) = 0 THEN t.tag
  ELSE IF path[1] < 0 \/ path[1] >= Len(t.children) THEN NoTag
  ELSE TagAt(t.children[path[1] + 1], Tail(path))

\* The paths of the nodes of a document, and the positions a node can be
\* inserted at.
RECURSIVE NodePathsBelow(_, _)
NodePathsBelow(node, path) ==
  {path} \cup UNION {NodePathsBelow(node.children[i], concat(path, i - 1)) :
                       i \in 1..num_children(node)}

NodePaths(d) == NodePathsBelow(d, <<>>)

InsertPositions(d) ==
  UNION {{concat(q, i) : i \in 0..num_children(get(d, q).v)} :
           q \in {r \in NodePaths(d) : get(d, r).v.kind # "Text"}}

TreeOps(d) ==
  {InsertNode(TextNode(Text_new(<<"a">>)), q) : q \in InsertPositions(d)}
    \cup {RemoveNode(q, get(d, q).v) : q \in NodePaths(d) \ {<<>>}}

TreeInit ==
  /\ build \in Builds
  /\ doc \in Documents
  /\ op \in TreeOps(doc)
  /\ arg_path \in NodePaths(doc)
  /\ arg_affinity = DefaultAffinity
  /\ doc2 = Tagged(doc, <<>>)
  /\ pc = "start"
  /\ tpath = NonePath /\ tback = NonePath
  /\ InverseIdle /\ PointIdle /\ IterIdle /\ RangeIdle /\ TextIdle
  /\ OrderIdle

\* the operation is applied to the document
TreeApply ==
  /\ pc = "transformed"
  /\ pc' = "applied"
  /\ doc2' = apply(doc2, op)
  /\ UNCHANGED <<build, op, arg_affinity, inverseVars, pathVars, pointVars,
                 doc, iterVars, rangeVars, textVars, orderVars>>

TreeNext == PathTransform \/ TreeApply

SpecTree == TreeInit /\ [][TreeNext]_vars

\* NodeIterator: Node::nodes() builds it, next() is called again and again.
\* The driver stops calling after CallLimit calls.
CallLimit == 2 * MaxNodes + 2

IterInit ==
  /\ build \in Builds
  /\ self_root \in Documents
  /\ self_n = self_root
  /\ self_p = <<>>
  /\ self_reverse = FALSE
  /\ self_visited = {}
  /\ out = NoneEntry /\ yielded = <<>> /\ ended = FALSE /\ calls = 0
  /\ emitted = <<>>
  /\ pc = "iterating"
  /\ op = BlankOp /\ arg_affinity = DefaultAffinity
  /\ InverseIdle /\ PathIdle /\ PointIdle /\ TreeIdle
  /\ RangeIdle /\ TextIdle
  /\ OrderIdle

\* Iterator::next for NodeIterator, one call
NodeIterator_next ==
  /\ pc = "iterating"
  /\ calls < CallLimit
  /\ LET r == next_result IN
       /\ self_n' = r.n
       /\ self_p' = r.p
       /\ self_visited' = r.visited
       /\ out' = r.ret
       /\ pc' = IF r.ret.st = "panic" THEN "aborted" ELSE pc
       /\ ended' = (ended \/ r.ret.st = "none")
       /\ yielded' = IF ~ended /\ r.ret.st = "some"
                     THEN Append(yielded, r.ret.v) ELSE yielded
       /\ emitted' = IF r.ret.st = "some"
                     THEN Append(emitted, r.ret.v) ELSE emitted
  /\ calls' = calls + 1
  /\ UNCHANGED <<build, op, arg_affinity, inverseVars, pathVars, pointVars,
                 treeVars, rangeVars, textVars, orderVars, self_root,
                 self_reverse>>

IterNext == NodeIterator_next

SpecIter == IterInit /\ [][IterNext]_vars

\* A NodeIterator over the whole tree with its `reverse` field set.
IterReverseInit ==
  /\ build \in Builds
  /\ self_root \in Documents
  /\ self_n = self_root
  /\ self_p = <<>>
  /\ self_reverse = TRUE
  /\ self_visited = {}
  /\ out = NoneEntry /\ yielded = <<>> /\ ended = FALSE /\ calls = 0
  /\ emitted = <<>>
  /\ pc = "iterating"
  /\ op = BlankOp /\ arg_affinity = DefaultAffinity
  /\ InverseIdle /\ PathIdle /\ PointIdle /\ TreeIdle
  /\ RangeIdle /\ TextIdle
  /\ OrderIdle

SpecIterReverse == IterReverseInit /\ [][IterNext]_vars

\* The pure functions of Path, one call per step, on paths that include an
\* index of usize::MAX (written -1).
OrderPaths == Paths \cup {<<-1>>}

OrderInit ==
  /\ build \in Builds
  /\ path_a \in OrderPaths
  /\ path_b \in OrderPaths
  /\ path_c = <<>>
  /\ cmp_out = NoOrderings /\ common_out = NoCommons
  /\ ends_out = NoEnds /\ next_a = NonePath
  /\ op = BlankOp /\ arg_affinity = DefaultAffinity
  /\ pc = "start"
  /\ InverseIdle /\ PathIdle /\ PointIdle /\ TreeIdle /\ IterIdle
  /\ RangeIdle /\ TextIdle

PathCmp ==
  /\ pc = "start"
  /\ \E c \in OrderPaths :
       /\ path_c' = c
       /\ cmp_out' = [ab |-> cmp(path_a, path_b), ba |-> cmp(path_b, path_a),
                      bc |-> cmp(path_b, c), ac |-> cmp(path_a, c)]
  /\ pc' = "compared"
  /\ UNCHANGED <<build, op, arg_affinity, inverseVars, pathVars, pointVars,
                 treeVars, iterVars, rangeVars, textVars, path_a, path_b,
                 common_out, ends_out, next_a>>

PathCommon ==
  /\ pc = "start"
  /\ common_out' = [ab |-> common(path_a, path_b),
                    ba |-> common(path_b, path_a),
                    aa |-> common(path_a, path_a)]
  /\ pc' = "common"
  /\ UNCHANGED <<build, op, arg_affinity, inverseVars, pathVars, pointVars,
                 treeVars, iterVars, rangeVars, textVars, path_a, path_b,
                 path_c, cmp_out, ends_out, next_a>>

PathEnds ==
  /\ pc = "start"
  /\ ends_out' =
       [before |-> IF ends_before_panics(path_a) THEN PanicBool
                   ELSE Some(ends_before(path_a, path_b)),
        after |-> ends_after(path_a, path_b)]
  /\ pc' = "ends"
  /\ UNCHANGED <<build, op, arg_affinity, inverseVars, pathVars, pointVars,
                 treeVars, iterVars, rangeVars, textVars, path_a, path_b,
                 path_c, cmp_out, common_out, next_a>>

PathNextSibling ==
  /\ pc = "start"
  /\ next_a' = next(path_a)
  /\ pc' = "next"
  /\ UNCHANGED <<build, op, arg_affinity, inverseVars, pathVars, pointVars,
                 treeVars, iterVars, rangeVars, textVars, path_a, path_b,
                 path_c, cmp_out, common_out, ends_out>>

OrderNext == PathCmp \/ PathCommon \/ PathEnds \/ PathNextSibling

SpecOrder == OrderInit /\ [][OrderNext]_vars

(***************************************************************************)
(* Claims                                                                  *)
(***************************************************************************)
C2_Covered(o) ==
  \/ o.type \in {"InsertNode", "RemoveNode", "InsertText", "RemoveText",
                 "SetNode", "SetSelection"}
  \/ o.type = "SplitNode" /\ Len(o.path) > 0
  \/ o.type = "MergeNode" /\ Len(o.path) > 0 /\ o.path[Len(o.path)] > 0

\* C2: for InsertNode, RemoveNode, InsertText, RemoveText, SetNode,
\* SetSelection, SplitNode with a non-root path and MergeNode whose path has
\* a previous sibling, inverse does not abort and inverse(inverse(op)) = op.
C2_InverseInvolution ==
  C2_Covered(op) =>
    /\ pc # "start" => inv.st = "some"
    /\ pc = "done" => inv2 = Some(op)

C2_Witness ==
  /\ pc = "done"
  /\ op.type = "SetSelection"
  /\ op.sel_properties = <<>>
  /\ op.sel_new_properties # <<>>
  /\ inv.v.sel_new_properties = <<>>
  /\ inv2 = Some(op)

C3_Covered(o) == o.type = "MoveNode" /\ Len(o.path) > 0 /\ Len(o.new_path) > 0

\* C3 as stated: for every MoveNode with non-root path and new_path,
\* inverse(inverse(op)) = op.
C3_MoveInvolutionAll ==
  C3_Covered(op) =>
    /\ pc # "start" => inv.st = "some"
    /\ pc = "done" => inv2 = Some(op)

\* C3 (amended): for every MoveNode with non-root path and new_path whose
\* new_path is not a descendant of path (a node is not moved into its own
\* subtree), inverse does not abort and inverse(inverse(op)) = op.
C3_MoveInvolution ==
  (C3_Covered(op) /\ ~is_ancestor(op.path, op.new_path)) =>
    /\ pc # "start" => inv.st = "some"
    /\ pc = "done" => inv2 = Some(op)

C3_Witness ==
  /\ pc = "done"
  /\ C3_Covered(op)
  /\ op.path # op.new_path
  /\ ~is_sibling(op.path, op.new_path)
  /\ ~is_ancestor(op.path, op.new_path)
  /\ inv.v.path # op.new_path
  /\ inv2 = Some(op)

\* The point lies on the subtree a RemoveNode removes.
C4_OnRemovedSubtree(pt, o) ==
  o.type = "RemoveNode" /\ (o.path = pt.path \/ is_ancestor(o.path, pt.path))

\* C4: for every operation and every point not on a subtree the operation
\* removes, with the default affinity, neither Point::transform aborts, and
\* when the transform through op and then through inverse(op) both return a
\* point, the second is the point started from.  Stated here for the
\* operations and points whose path is not the root, which the claim
\* includes.
C4_PointRoundTrip ==
  (/\ arg_affinity = DefaultAffinity
   /\ Len(op.path) > 0
   /\ Len(arg_point.path) > 0
   /\ ~C4_OnRemovedSubtree(arg_point, op)) =>
    /\ pc # "start" => tpoint.st # "panic"
    /\ pc = "done" =>
         /\ tpointback.st # "panic"
         /\ tpointback.st = "some" => tpointback.v = arg_point

C5_Covered ==
  /\ op.type = "MoveNode"
  /\ Len(op.path) > 0
  /\ Len(op.new_path) > 0
  /\ op.new_path # op.path
  /\ ~is_ancestor(op.path, op.new_path)
  /\ Len(arg_path) > 0
  /\ arg_affinity = DefaultAffinity

\* C5: for every MoveNode with non-root path and new_path, new_path neither
\* equal to nor a descendant of path, and every non-root path p,
\* Path::transform of p through the operation and then through its inverse
\* returns p.
C5_MovePathRoundTrip ==
  C5_Covered =>
    /\ pc # "start" => (tpath.st = "some" /\ inv.st = "some")
    /\ pc = "done" => tback = Some(arg_path)

C5_Witness ==
  /\ pc = "done"
  /\ C5_Covered
  /\ ~is_sibling(op.path, op.new_path)
  /\ tpath.v # arg_path
  /\ arg_path # op.path
  /\ tback = Some(arg_path)


\* The nodes of a tree in pre-order (parent before children, children in
\* index order), each with its path: what the iteration is specified to
\* yield.
RECURSIVE PreOrder(_, _), PreOrderChildren(_, _, _)
PreOrder(node, path) ==
  <<NodeEntry(node, path)>> \o PreOrderChildren(node, path, 0)

PreOrderChildren(node, path, i) ==
  IF i >= num_children(node) THEN <<>>
  ELSE PreOrder(node.children[i + 1], concat(path, i))
         \o PreOrderChildren(node, path, i + 1)

IsPrefix(s, t) == Len(s) <= Len(t) /\ s = SubSeq(t, 1, Len(s))

\* C1: consumed until the first None, nodes(root) yields every node of the
\* tree exactly once, in pre-order: what has been yielded is always the
\* beginning of the pre-order listing, and when the first None comes it is
\* the whole listing (k entries for a tree of k nodes).
C1_NodesPreOrder ==
  (pc = "iterating" /\ ~self_reverse) =>
    /\ ~ended => IsPrefix(yielded, PreOrder(self_root, <<>>))
    /\ ended => yielded = PreOrder(self_root, <<>>)


\* C6: for InsertNode at a valid position and RemoveNode of an existing
\* node (operation path not the root) and every path that resolves to a
\* node of the document before the operation, Path::transform is None
\* exactly when the node is in the removed subtree, and otherwise is the
\* path at which the same node is found in the document after the
\* operation.
C6_InRemovedSubtree ==
  /\ op.type = "RemoveNode"
  /\ (op.path = arg_path \/ is_ancestor(op.path, arg_path))

C6_TransformFollowsNode ==
  (doc # BlankNode /\ pc = "applied") =>
    /\ tpath.st \in {"some", "none"}
    /\ tpath.st = "none" <=> C6_InRemovedSubtree
    /\ tpath.st = "some" => TagAt(doc2, tpath.v) = arg_path

C6_Witness ==
  /\ doc # BlankNode /\ pc = "applied"
  /\ op.type = "RemoveNode"
  /\ ~C6_InRemovedSubtree
  /\ tpath.st = "some" /\ tpath.v # arg_path
  /\ TagAt(doc2, tpath.v) = arg_path


\* C7: Range::transform transforms each endpoint separately, the anchor
\* under the anchor's affinity and the focus under the focus's affinity of
\* the table (Inward: Forward and Backward on a forward range, Backward and
\* Forward on a backward one; Outward: the opposite; Forward, Backward,
\* None: that value for both), and is None exactly when one of the two
\* point transforms is None.
C7_AnchorAffinity ==
  CASE range_affinity = "Inward" ->
         IF Point_is_after(arg_range.anchor, arg_range.focus)
           THEN "Backward" ELSE "Forward"
    [] range_affinity = "Outward" ->
         IF Point_is_after(arg_range.anchor, arg_range.focus)
           THEN "Forward" ELSE "Backward"
    [] OTHER -> range_affinity

C7_FocusAffinity ==
  CASE range_affinity = "Inward" ->
         IF Point_is_after(arg_range.anchor, arg_range.focus)
           THEN "Forward" ELSE "Backward"
    [] range_affinity = "Outward" ->
         IF Point_is_after(arg_range.anchor, arg_range.focus)
           THEN "Backward" ELSE "Forward"
    [] OTHER -> range_affinity

C7_TransformsEachEndpoint ==
  pc = "range_transformed" =>
    LET a == Point_transform(arg_range.anchor, op, C7_AnchorAffinity)
        f == Point_transform(arg_range.focus, op, C7_FocusAffinity)
    IN (a.st # "panic" /\ f.st # "panic") =>
         /\ trange.st \in {"some", "none"}
         /\ trange.st = "none" <=> (a.st = "none" \/ f.st = "none")
         /\ trange.st = "some" => trange.v = Range(a.v, f.v)

\* C8: intersection(a, b) is the range from the later of the two starts to
\* the earlier of the two ends, each range's start and end taken from its
\* own edges, and is None when that end is before that start.
C8_IntersectionOfBoth ==
  pc = "intersected" =>
    LET sa == edges(arg_range, FALSE).start
        ea == edges(arg_range, FALSE).end
        sb == edges(arg_another, FALSE).start
        eb == edges(arg_another, FALSE).end
        start == IF Point_is_before(sa, sb) THEN sb ELSE sa
        end == IF Point_is_before(ea, eb) THEN ea ELSE eb
    IN IF Point_is_before(end, start) THEN isect = NoneRange
       ELSE isect = Some(Range(start, end))

\* The strings of a list of leaves, one after the other.
RECURSIVE ConcatStrings(_)
ConcatStrings(ls) ==
  IF Len(ls) = 0 THEN <<>> ELSE Head(ls).string \o ConcatStrings(Tail(ls))

\* C9: the strings of the leaves decorations() returns, one after the
\* other, are the string of the leaf it was called on; this holds of
\* `leaves` after every pass of the loop as well.
C9_ConcatenationIsString ==
  pc \in {"decorating", "returned"} =>
    ConcatStrings(leaves) = arg_text.string

C9_Witness ==
  /\ pc = "returned"
  /\ Len(arg_decorations) = MaxDecorations
  /\ Len(leaves) > MaxDecorations
  /\ ConcatStrings(leaves) = arg_text.string

\* The offset at which leaf i of a list starts.
RECURSIVE OffsetOf(_, _)
OffsetOf(ls, i) ==
  IF i = 1 THEN 0 ELSE OffsetOf(ls, i - 1) + Len(ls[i - 1].string)

\* The tags of the first k decorations whose [start, end) meets [o, o + len).
TagsOver(k, o, len) ==
  UNION {arg_decorations[j].dec :
           j \in {i \in 1..k :
                    LET s == edges(arg_decorations[i].range, FALSE).start.offset
                        e == edges(arg_decorations[i].range, FALSE).end.offset
                    IN (IF s > o THEN s ELSE o)
                         < (IF e < o + len THEN e ELSE o + len)}}

\* C10: every non-empty leaf decorations() returns has the marks of the
\* leaf it was called on, and as meta that leaf's meta together with
\* exactly the tags of the decorations whose [start, end) meets the region
\* of the string the returned leaf covers; after each pass of the loop this
\* holds of `leaves` for the decorations gone through so far.
C10_LeafMarksAndMeta ==
  pc \in {"decorating", "returned"} =>
    \A i \in 1..Len(leaves) :
      Len(leaves[i].string) > 0 =>
        /\ leaves[i].marks = arg_text.marks
        /\ leaves[i].meta =
             arg_text.meta
               \cup TagsOver(decorated, OffsetOf(leaves, i),
                             Len(leaves[i].string))

C10_Witness ==
  /\ pc = "returned"
  /\ Len(arg_decorations) = MaxDecorations
  /\ \E i \in 1..Len(leaves), j \in 1..Len(leaves) :
       /\ Len(leaves[i].string) > 0 /\ Len(leaves[j].string) > 0
       /\ leaves[i].meta # leaves[j].meta
       /\ leaves[i].meta # arg_text.meta
       /\ leaves[j].meta # arg_text.meta

\* The first position where two paths, neither a prefix of the other, differ.
FirstDifference(a, b) ==
  CHOOSE i \in 1..Len(a) :
    /\ i <= Len(b) /\ a[i] # b[i]
    /\ \A j \in 1..(i - 1) : a[j] = b[j]

\* C11: cmp(a, b) is Equal exactly when one of a, b is a prefix of the other
\* (a = b and the root path included); otherwise it is the order of the two
\* (usize) indices at the first position where the paths differ.
C11_EqualIffPrefix ==
  pc = "compared" =>
    IF IsPrefix(path_a, path_b) \/ IsPrefix(path_b, path_a)
    THEN cmp_out.ab = "Equal"
    ELSE LET i == FirstDifference(path_a, path_b) IN
           cmp_out.ab = IF ULess(path_a[i], path_b[i]) THEN "Less"
                        ELSE "Greater"

C11_Witness ==
  /\ pc = "compared"
  /\ Len(path_b) > 0 /\ Len(path_b) < Len(path_a)
  /\ IsPrefix(path_b, path_a)
  /\ cmp_out.ab = "Equal"

Reverse(o) ==
  CASE o = "Less" -> "Greater"
    [] o = "Greater" -> "Less"
    [] OTHER -> o

\* C12 as stated: cmp(a, b) is the reverse of cmp(b, a), and if cmp(a, b) and
\* cmp(b, c) are both not Greater then cmp(a, c) is not Greater.
C12_TotalOrder ==
  pc = "compared" =>
    /\ cmp_out.ab = Reverse(cmp_out.ba)
    /\ (cmp_out.ab # "Greater" /\ cmp_out.bc # "Greater")
         => cmp_out.ac # "Greater"

\* C12: cmp(a, b) is the reverse of cmp(b, a); Less is transitive; and "not
\* Greater" carries from (a, b) and (b, c) to (a, c) when b is at least as
\* long as the shorter of a and c.
C12_StrictOrder ==
  pc = "compared" =>
    /\ cmp_out.ab = Reverse(cmp_out.ba)
    /\ (cmp_out.ab = "Less" /\ cmp_out.bc = "Less") => cmp_out.ac = "Less"
    /\ (/\ Len(path_b) >= Len(path_a) \/ Len(path_b) >= Len(path_c)
        /\ cmp_out.ab # "Greater" /\ cmp_out.bc # "Greater")
         => cmp_out.ac # "Greater"

C12_Witness ==
  /\ pc = "compared"
  /\ cmp_out.ab = "Less" /\ cmp_out.bc = "Less" /\ cmp_out.ac = "Less"
  /\ cmp_out.ba = "Greater"
  /\ Len(path_a) # Len(path_b) /\ Len(path_b) # Len(path_c)

\* The longest path that is a prefix of both a and b.
LongestCommonPrefix(a, b) ==
  LET k == CHOOSE n \in 0..Len(a) :
             /\ n <= Len(b) /\ Take(a, n) = Take(b, n)
             /\ \A m \in (n + 1)..Len(a) :
                  m > Len(b) \/ Take(a, m) # Take(b, m)
  IN Take(a, k)

\* C13: for all paths a and b, of any lengths (b shorter than a, b a proper
\* prefix of a included), common(a, b) returns their longest common prefix
\* without aborting, common(a, b) = common(b, a) and common(a, a) = a.
C13_CommonPrefix ==
  pc = "common" =>
    /\ common_out.ab = Some(LongestCommonPrefix(path_a, path_b))
    /\ common_out.ab = common_out.ba
    /\ common_out.aa = Some(path_a)

\* C14: for every non-root a and every b of another length, ends_before(a, b)
\* and ends_after(a, b) both return false, and neither aborts.
C14_FalseOnOtherLengths ==
  (pc = "ends" /\ Len(path_a) > 0 /\ Len(path_a) # Len(path_b)) =>
    /\ ends_out.before = Some(FALSE)
    /\ ends_out.after = Some(FALSE)

\* q is p with the same parent and the last index incremented by one.
Incremented(p, q) ==
  /\ Len(p) > 0 /\ Len(q) = Len(p)
  /\ Take(q, Len(p) - 1) = Take(p, Len(p) - 1)
  /\ ~AddOverflows(p[Len(p)], 1)
  /\ q[Len(p)] = p[Len(p)] + 1

\* C15 as stated: for every path p, next(p) is never absent; it returns the
\* path with the same parent and the last index incremented by one.
C15_NextOfEveryPath ==
  pc = "next" => (next_a.st = "some" /\ Incremented(path_a, next_a.v))

\* C15: for every non-root path p whose last index is below usize::MAX,
\* next(p) returns the path with the same parent and the last index
\* incremented by one.
C15_NextOfNonRoot ==
  (pc = "next" /\ Len(path_a) > 0 /\ path_a[Len(path_a)] # -1) =>
    (next_a.st = "some" /\ Incremented(path_a, next_a.v))

C15_Witness ==
  /\ pc = "next"
  /\ Len(path_a) = MaxPathLen
  /\ path_a[1] # path_a[Len(path_a)]
  /\ next_a.st = "some" /\ Incremented(path_a, next_a.v)

\* C16: for every finite tree the sequence nodes(root) produces is finite:
\* after finitely many calls next() returns absent.  next() is a function of
\* the iterator's fields, so in particular no call returns an entry and
\* leaves n, p and visited as they were: every later call would return that
\* entry again.
C16_NodesEnds ==
  [][(pc = "iterating" /\ ~self_reverse /\ out'.st = "some")
       => <<self_n, self_p, self_visited>>' # <<self_n, self_p, self_visited>>]_vars

\* The elements of a sequence.
Elements(s) == {s[i] : i \in 1..Len(s)}

\* C17: with reverse = true the iteration over a tree of k nodes does not
\* abort, and what it yields until the first None is, as a multiset, the k
\* entries of the tree (those the forward iteration is specified to yield).
C17_ReverseYieldsAllNodes ==
  self_reverse =>
    /\ pc # "aborted"
    /\ ended => /\ Len(yielded) = Len(PreOrder(self_root, <<>>))
                /\ Elements(yielded) = Elements(PreOrder(self_root, <<>>))

\* C18: for every operation (every variant, its own path the root included)
\* and every affinity, Path::transform of the root path [] returns [];
\* so does the transform of that result through the operation's inverse.
C18_RootStaysRoot ==
  arg_path = <<>> =>
    /\ pc \in {"transformed", "done"} => tpath = Some(<<>>)
    /\ pc = "done" => tback = Some(<<>>)

C18_Witness ==
  /\ pc = "transformed"
  /\ arg_path = <<>>
  /\ op.type = "InsertNode" /\ op.path = <<>>
  /\ arg_affinity = "None"
  /\ tpath = Some(<<>>)

\* C19: r.includes(t) is true exactly when an endpoint of t lies within r
\* (start_r <= pt <= end_r) or r straddles t (start_r before start_t and
\* end_r after end_t); it is false for a t that lies entirely after end_r.
C19_IncludesRange ==
  pc = "included" =>
    LET r == edges(arg_range, FALSE)
        t == edges(arg_another, FALSE)
        Within(pt) == /\ Point_cmp(pt, r.start) # "Less"
                      /\ Point_cmp(pt, r.end) # "Greater"
    IN /\ includes_out.st = "some"
       /\ includes_out.v <=>
            \/ Within(arg_another.anchor) \/ Within(arg_another.focus)
            \/ /\ Point_is_before(r.start, t.start)
               /\ Point_is_after(r.end, t.end)
       /\ Point_is_after(t.start, r.end) => ~includes_out.v

\* The path is the moved node or lies below it.
C20_Covered ==
  /\ op.type = "MoveNode"
  /\ op.path # op.new_path
  /\ Len(arg_path) > 0
  /\ IsPrefix(op.path, arg_path)

\* new_path after the removal of the moved node: the index at the depth of
\* the operation's path is one less when new_path is deeper than path, has
\* path's parent as a prefix and passes through a later sibling of path.
C20_ShiftedNewPath ==
  LET n == Len(op.path) IN
    IF /\ n > 0 /\ n < Len(op.new_path)
       /\ Take(op.path, n - 1) = Take(op.new_path, n - 1)
       /\ ULess(op.path[n], op.new_path[n])
    THEN [op.new_path EXCEPT ![n] = op.new_path[n] - 1]
    ELSE op.new_path

C20_Moved ==
  C20_ShiftedNewPath \o SubSeq(arg_path, Len(op.path) + 1, Len(arg_path))

C21_RemoveTextShiftsOffset ==
  (/\ pc \in {"transformed", "done"}
   /\ op.type = "RemoveText"
   /\ Len(op.path) > 0
   /\ arg_point.path = op.path
   /\ arg_point.offset >= op.offset) =>
    tpoint = Some(Point(arg_point.path,
                        arg_point.offset
                          - (IF arg_point.offset - op.offset < Len(op.text)
                             THEN arg_point.offset - op.offset
                             ELSE Len(op.text))))

\* C22: for RemoveNode(opPath) and any point pt, Point::transform returns
\* absent exactly when opPath equals or is an ancestor of pt.path; for every
\* other point it returns, without aborting, the point with the path
\* Path::transform(pt.path, op) and the same offset.  Stated here for
\* operations and points whose path is not the root.
C22_RemoveNodePoint ==
  (/\ pc \in {"transformed", "done"}
   /\ op.type = "RemoveNode"
   /\ Len(op.path) > 0 /\ Len(arg_point.path) > 0) =>
    IF IsPrefix(op.path, arg_point.path)
    THEN tpoint = NonePoint
    ELSE tpoint = Some(Point(transform(arg_point.path, op, arg_affinity).v,
                             arg_point.offset))

\* C23: for MergeNode(opPath, position) and any point pt, Point::transform
\* returns the point whose path is Path::transform(pt.path, op) and whose
\* offset is pt.offset + position when opPath = pt.path and pt.offset
\* otherwise.  Stated here for the merges of a node that has a previous
\* sibling (non-root path, last index above 0) and the non-root points whose
\* path Path::transform does transform.
C23_MergeNodePoint ==
  (/\ pc \in {"transformed", "done"}
   /\ op.type = "MergeNode"
   /\ Len(op.path) > 0 /\ Len(arg_point.path) > 0
   /\ op.path[Len(op.path)] > 0
   /\ transform(arg_point.path, op, arg_affinity).st = "some") =>
    tpoint = Some(Point(transform(arg_point.path, op, arg_affinity).v,
                        IF op.path = arg_point.path
                        THEN arg_point.offset + op.position
                        ELSE arg_point.offset))

\* The split is of the node the point is in, which is not the root.
C24_Covered ==
  /\ op.type = "SplitNode"
  /\ op.path = arg_point.path
  /\ Len(arg_point.path) > 0

\* C24: for SplitNode(opPath, position) with opPath = pt.path,
\* Point::transform returns absent exactly when position = pt.offset and the
\* affinity is None; when position < pt.offset, or position = pt.offset with
\* affinity Forward, it returns offset pt.offset - position on the path with
\* its last index incremented; in every remaining case it returns pt.
C24_SplitNodePoint ==
  (C24_Covered /\ pc = "transformed") =>
    IF op.position = arg_point.offset /\ arg_affinity = "None"
      THEN tpoint = NonePoint
    ELSE IF \/ op.position < arg_point.offset
            \/ op.position = arg_point.offset /\ arg_affinity = "Forward"
      THEN /\ tpoint.st = "some"
           /\ tpoint.v.offset = arg_point.offset - op.position
           /\ Incremented(arg_point.path, tpoint.v.path)
    ELSE tpoint = Some(arg_point)

C24_Witness ==
  /\ pc = "transformed"
  /\ C24_Covered
  /\ arg_affinity = "Forward"
  /\ op.position = arg_point.offset /\ op.position > 0
  /\ tpoint.st = "some"
  /\ tpoint.v.offset = 0
  /\ Incremented(arg_point.path, tpoint.v.path)

\* C25: Point::transform is the identity for the operations that do not
\* concern the point: SetNode, SetSelection, and an InsertText or RemoveText
\* whose path is neither pt.path nor an ancestor of it.  Stated here for the
\* points whose path is not the root.
C25_IdentityElsewhere ==
  (/\ pc \in {"transformed", "done"}
   /\ Len(arg_point.path) > 0
   /\ \/ op.type \in {"SetNode", "SetSelection"}
      \/ /\ op.type \in {"InsertText", "RemoveText"}
         /\ ~IsPrefix(op.path, arg_point.path)) =>
    tpoint = Some(arg_point)

\* C26: for a non-empty leaf and any sequence of non-collapsed, in-bounds
\* decorations (start < end), every leaf Text::decorations returns has a
\* non-empty string.
C26_NoEmptyLeaf ==
  (/\ pc = "returned"
   /\ Len(arg_text.string) > 0
   /\ \A i \in 1..Len(arg_decorations) :
        LET r == arg_decorations[i].range IN
          /\ r.anchor.path = r.focus.path
          /\ r.anchor.offset < r.focus.offset
          /\ r.focus.offset <= Len(arg_text.string)) =>
    \A i \in 1..Len(leaves) : Len(leaves[i].string) > 0

\* C27: for every finite tree whose root has at least one child, when next()
\* on nodes(root) is called repeatedly, the absent results are ignored and
\* the calling stops once the cursor is back at the root, the entries
\* returned are exactly the tree's nodes, each once, in pre-order: what has
\* been returned is always the beginning of the pre-order listing, it is
\* the whole listing when the cursor is back at the root, and the cursor is
\* back within 2 * MaxNodes + 2 calls.
C27_PreOrderIgnoringNone ==
  (pc = "iterating" /\ ~self_reverse /\ has_children(self_root)) =>
    /\ IsPrefix(emitted, PreOrder(self_root, <<>>))
    /\ (calls > 0 /\ self_p = <<>>) => emitted = PreOrder(self_root, <<>>)
    /\ calls = CallLimit => self_p = <<>>

C27_Witness ==
  /\ pc = "iterating" /\ ~self_reverse
  /\ calls > 0 /\ self_p = <<>>
  /\ Len(emitted) = MaxNodes
  /\ Len(yielded) < Len(emitted)
  /\ emitted = PreOrder(self_root, <<>>)

\* C28: the node iterator is fused: once a call of next() has returned
\* absent, every later call returns absent.
C28_Fused ==
  (pc = "iterating" /\ ~self_reverse /\ ended) => out.st = "none"

C29_Covered ==
  /\ op.type \in {"InsertNode", "SplitNode"}
  /\ Len(op.path) > 0
  /\ Len(arg_path) > 0
  /\ arg_affinity = DefaultAffinity

\* C29: for every InsertNode or SplitNode with a non-root path and every
\* non-root path p, with the default (Forward) affinity, Path::transform of
\* p through the operation and then through its inverse returns p, and
\* neither step is absent.
C29_InsertSplitRoundTrip ==
  C29_Covered =>
    /\ pc \in {"transformed", "done"} => (tpath.st = "some" /\ inv.st = "some")
    /\ pc = "done" => tback = Some(arg_path)

C29_Witness ==
  /\ pc = "done"
  /\ C29_Covered
  /\ op.type = "SplitNode" /\ op.position > 0
  /\ is_ancestor(op.path, arg_path)
  /\ tpath.v # arg_path
  /\ tback = Some(arg_path)

C30_Covered ==
  /\ op.type = "MoveNode"
  /\ Len(op.path) > 0 /\ Len(op.new_path) > 0
  /\ ~IsPrefix(op.path, op.new_path)
  /\ Len(arg_path) > 0

\* C30: for every MoveNode(path, new_path) with non-root path and new_path,
\* new_path neither equal to nor a descendant of path, Path::transform is
\* injective on the non-root paths: the transform of p is a path, and no
\* other non-root path q transforms to it.
C30_MoveInjective ==
  (C30_Covered /\ pc = "transformed") =>
    /\ tpath.st = "some"
    /\ \A q \in NonRootPaths \ {arg_path} :
         transform(q, op, arg_affinity) # tpath

C30_Witness ==
  /\ pc = "transformed"
  /\ C30_Covered
  /\ tpath.st = "some" /\ tpath.v # arg_path
  /\ transform(tpath.v, op, arg_affinity) # tpath
  /\ \E q \in NonRootPaths \ {arg_path} :
       transform(q, op, arg_affinity) = Some(arg_path)

====
